---- MODULE Spec2Model ----
(***************************************************************************)
(* Model of the eBay scheduled-listing application (Sell API version):     *)
(* the OAuth2 token manager of oauth2_auth.py, the authenticated gateway   *)
(* and listing saga of sell_api_client.py, and the application layer of    *)
(* main_sell_api.py.  The program is synchronous and single threaded, so   *)
(* every handler is one action; the answers of the outside world (the      *)
(* user at the consent prompt, the token endpoint, the Sell API, the file  *)
(* system, the clock) are the inputs the actions draw with \E.             *)
(*                                                                         *)
(* Conventions.  Python None and a missing dictionary key are written 0    *)
(* for the integer valued token fields and None for string valued fields.  *)
(* A dictionary is a function whose DOMAIN is its set of keys.  A message  *)
(* is the sequence of the parts the code's f-string concatenates.          *)
(***************************************************************************)
EXTENDS Integers, Sequences, FiniteSets, TLC

\* ---------------------------------------------------------------- bounds
T0 == 1000          \* epoch second at which the process starts
TickStep == 100     \* seconds the clock advances in one Tick
MaxTicks == 3       \* the clock stops advancing after MaxTicks steps
MaxIssued == 4      \* tokens the token endpoint issues in one behaviour

Resolution == 2     \* readings of the clock per second
MaxDrift == 1       \* readings the clock advances between two reads of one call

MaxNow == T0 + TickStep * MaxTicks

\* ------------------------------------------------------------ token store
SafetyBuffer == 300

\* expires_in values the token endpoint answers with (0: field missing)
ExpiresInChoices == {0, SafetyBuffer + TickStep, SafetyBuffer + 2 * TickStep}

\* token_data None / {}: both are falsy at every test the code makes
NoTokens == [access_token |-> 0, refresh_token |-> 0, expires_in |-> 0, obtained_at |-> 0]

TokenFields == <<"access_token", "refresh_token", "expires_in", "obtained_at">>

\* the decimal digits json.dump writes for a number, and the number
\* json.load reads from them
RECURSIVE Digits(_)
Digits(n) == IF n < 10 THEN <<n>> ELSE Append(Digits(n \div 10), n % 10)

RECURSIVE Number(_)
Number(digits) ==
    IF digits = <<>> THEN 0
    ELSE Number(SubSeq(digits, 1, Len(digits) - 1)) * 10 + digits[Len(digits)]

\* json.dump(token_data, f): the members of the object, one per key held
json_dump(token_data) ==
    LET held == SelectSeq(TokenFields, LAMBDA k : token_data[k] # 0)
    IN  [i \in 1..Len(held) |-> [key |-> held[i], value |-> Digits(token_data[held[i]])]]

\* json.load(f): the dictionary of the members read
json_load(text) ==
    [k \in {TokenFields[i] : i \in 1..Len(TokenFields)} |->
        IF \E i \in 1..Len(text) : text[i].key = k
        THEN Number(text[CHOOSE i \in 1..Len(text) : text[i].key = k].value)
        ELSE 0]

\* ebay_tokens.json: absent, unparsable, or holding the text last written
NoFile == [kind |-> "absent", text |-> <<>>]
CorruptFile == [kind |-> "corrupt", text |-> <<>>]

SaveOutcomes == {"ok", "denied", "truncated"}

\* open(..., "w") fails: file untouched; json.dump fails after the
\* truncating open: the file is left unparsable; else the record is written.
\* a save that opens the file for appending
_save_tokens_append(file, token_data, outcome) ==
    CASE outcome = "ok" -> IF file.kind = "absent"
                           THEN [kind |-> "record", text |-> json_dump(token_data)]
                           ELSE CorruptFile
      [] outcome = "denied" -> file
      [] OTHER -> CorruptFile

_save_tokens(file, token_data, outcome) ==
    CASE outcome = "ok" -> [kind |-> "record", text |-> json_dump(token_data)]
      [] outcome = "denied" -> file
      [] OTHER -> CorruptFile

\* a load that makes a record out of a file it could not parse
load_tokens_lenient(file) ==
    IF file.kind = "record" THEN json_load(file.text)
    ELSE IF file.kind = "corrupt"
    THEN [access_token |-> 1, refresh_token |-> 0, expires_in |-> 0, obtained_at |-> 0]
    ELSE [access_token |-> 0, refresh_token |-> 0, expires_in |-> 0, obtained_at |-> 0]

load_tokens(file) ==
    IF file.kind = "record" THEN json_load(file.text) ELSE NoTokens

\* the validity test without the five minute buffer
is_token_valid_unbuffered(token_data, current_time) ==
    IF token_data = NoTokens \/ token_data.access_token = 0 THEN FALSE
    ELSE IF token_data.expires_in = 0 \/ token_data.obtained_at = 0 THEN FALSE
    ELSE current_time < token_data.obtained_at + token_data.expires_in

is_token_valid(token_data, current_time) ==
    IF token_data = NoTokens \/ token_data.access_token = 0 THEN FALSE
    ELSE IF token_data.expires_in = 0 \/ token_data.obtained_at = 0 THEN FALSE
    ELSE current_time < token_data.obtained_at + token_data.expires_in - SafetyBuffer

\* ---------------------------------------------------------- token endpoint
\* An answer of the token endpoint: a transport failure, a non-2xx status,
\* or a 2xx JSON object with the fields shown (0: field missing).
TokenAnswers(n) ==
    {[outcome |-> o, access_token |-> 0, refresh_token |-> 0, expires_in |-> 0, latency |-> l] :
        o \in {"transport", "rejected"}, l \in {0, TickStep}}
    \cup
    (IF n + 2 <= MaxIssued
     THEN {[outcome |-> "ok", access_token |-> a, refresh_token |-> r, expires_in |-> e, latency |-> l] :
              a \in {n + 1}, r \in {0, n + 2}, e \in ExpiresInChoices, l \in {0, TickStep}}
     ELSE {})

Issued(answer) == IF answer.outcome = "ok" THEN 2 ELSE 0

After(t, answer) == IF t + answer.latency <= MaxNow THEN t + answer.latency ELSE t

\* _exchange_code_for_tokens: the record, stamped with obtained_at, or None
_exchange_code_for_tokens(answer, t) ==
    IF answer.outcome = "ok"
    THEN [access_token |-> answer.access_token, refresh_token |-> answer.refresh_token,
          expires_in |-> answer.expires_in, obtained_at |-> After(t, answer)]
    ELSE NoTokens

ConsentOutcomes == {"code", "empty", "error"}

\* an acquisition that sends the exchange request again when it failed
authenticate_interactive_retry(consent, answer, t) ==
    IF consent = "code"
    THEN [token_data |-> _exchange_code_for_tokens(answer, t),
          reqs |-> IF answer.outcome = "ok"
                   THEN <<[grant |-> "authorization_code", refresh_token |-> 0]>>
                   ELSE <<[grant |-> "authorization_code", refresh_token |-> 0],
                          [grant |-> "authorization_code", refresh_token |-> 0]>>,
          t |-> After(t, answer), issued |-> Issued(answer)]
    ELSE [token_data |-> NoTokens, reqs |-> <<>>, t |-> t, issued |-> 0]

\* authenticate_interactive: prompt, then exchange when a code was given
authenticate_interactive(consent, answer, t) ==
    IF consent = "code"
    THEN [token_data |-> _exchange_code_for_tokens(answer, t),
          reqs |-> <<[grant |-> "authorization_code", refresh_token |-> 0]>>,
          t |-> After(t, answer), issued |-> Issued(answer)]
    ELSE [token_data |-> NoTokens, reqs |-> <<>>, t |-> t, issued |-> 0]

\* a refresh that removes the record when the token endpoint refuses
refresh_access_token_forget(file, refresh_token, answer, save) ==
    IF answer.outcome = "ok"
    THEN [token |-> answer.access_token,
          file |-> IF answer.refresh_token # 0
                   THEN _save_tokens(file,
                            [access_token |-> answer.access_token,
                             refresh_token |-> answer.refresh_token,
                             expires_in |-> answer.expires_in, obtained_at |-> 0], save)
                   ELSE file]
    ELSE [token |-> 0, file |-> NoFile]

\* refresh_access_token: the new access token (0: None) and the file after
\* the opportunistic save of the raw response (which has no obtained_at)
refresh_access_token(file, refresh_token, answer, save) ==
    IF answer.outcome = "ok"
    THEN [token |-> answer.access_token,
          file |-> IF answer.refresh_token # 0
                   THEN _save_tokens(file,
                            [access_token |-> answer.access_token,
                             refresh_token |-> answer.refresh_token,
                             expires_in |-> answer.expires_in, obtained_at |-> 0], save)
                   ELSE file]
    ELSE [token |-> 0, file |-> file]

\* get_valid_access_token, as a function of the file, the clock and the
\* answers of the outside world.  path names the return statement taken.
Outcome(result, file, t, reqs, prompted, issued, path) ==
    [result |-> result, file |-> file, t |-> t, reqs |-> reqs,
     prompted |-> prompted, issued |-> issued, path |-> path]

RefreshOrReturn(token_data, file, t, reqs, prompted, issued, rf, save2, save3) ==
    IF ~is_token_valid(token_data, t)
    THEN IF token_data.refresh_token = 0
         THEN Outcome(0, file, t, reqs, prompted, issued, "no_refresh_token")
         ELSE LET r == refresh_access_token(file, token_data.refresh_token, rf, save2)
                  t2 == After(t, rf)
                  rq == Append(reqs, [grant |-> "refresh_token",
                                      refresh_token |-> token_data.refresh_token])
              IN  IF r.token # 0
                  THEN Outcome(r.token,
                               _save_tokens(r.file,
                                   [token_data EXCEPT !.access_token = r.token,
                                                      !.obtained_at = t2], save3),
                               t2, rq, prompted, issued + Issued(rf), "refreshed")
                  ELSE Outcome(0, r.file, t2, rq, prompted, issued + Issued(rf),
                               "refresh_failed")
    ELSE Outcome(token_data.access_token, file, t, reqs, prompted, issued, "cached")

\* an acquisition that saves whatever the interactive flow returned
Acquire_save_unconditional(file, t, consent, ex, save1) ==
    LET loaded == load_tokens(file)
    IN  IF loaded = NoTokens
        THEN LET a == authenticate_interactive(consent, ex, t)
             IN  [token_data |-> a.token_data,
                  file |-> _save_tokens(file, a.token_data, save1),
                  t |-> a.t, reqs |-> a.reqs, prompted |-> TRUE, issued |-> a.issued]
        ELSE [token_data |-> loaded, file |-> file, t |-> t, reqs |-> <<>>,
              prompted |-> FALSE, issued |-> 0]

\* lines 230-241: load the file, else acquire interactively and save
Acquire(file, t, consent, ex, save1) ==
    LET loaded == load_tokens(file)
    IN  IF loaded = NoTokens
        THEN LET a == authenticate_interactive(consent, ex, t)
             IN  [token_data |-> a.token_data,
                  file |-> IF a.token_data = NoTokens THEN file
                           ELSE _save_tokens(file, a.token_data, save1),
                  t |-> a.t, reqs |-> a.reqs, prompted |-> TRUE, issued |-> a.issued]
        ELSE [token_data |-> loaded, file |-> file, t |-> t, reqs |-> <<>>,
              prompted |-> FALSE, issued |-> 0]

get_valid_access_token(file, t, consent, ex, rf, save1, save2, save3) ==
    LET a == Acquire(file, t, consent, ex, save1)
    IN  IF a.token_data = NoTokens
        THEN Outcome(0, a.file, a.t, a.reqs, a.prompted, a.issued, "auth_failed")
        ELSE RefreshOrReturn(a.token_data, a.file, a.t, a.reqs, a.prompted, a.issued,
                             rf, save2, save3)

\* The inputs a call consumes: an answer nobody asks for is not enumerated.
Unasked == [outcome |-> "transport", access_token |-> 0, refresh_token |-> 0,
            expires_in |-> 0, latency |-> 0]

\* what the outside world answered during one call: the user, the token
\* endpoint (exchange, refresh) and the file system at each write
Inputs(consent, ex, rf, saves) == [consent |-> consent, ex |-> ex, rf |-> rf, saves |-> saves]

NoInputs == Inputs("empty", Unasked, Unasked, <<"ok", "ok", "ok">>)

ConsentIn(file) == IF load_tokens(file) = NoTokens THEN ConsentOutcomes ELSE {"empty"}

ExchangeIn(file, consent, n) ==
    IF load_tokens(file) = NoTokens /\ consent = "code" THEN TokenAnswers(n) ELSE {Unasked}

Save1In(file, ex) ==
    IF load_tokens(file) = NoTokens /\ ex.outcome = "ok" THEN SaveOutcomes ELSE {"ok"}

RefreshIn(token_data, t, n) ==
    IF token_data # NoTokens /\ ~is_token_valid(token_data, t) /\ token_data.refresh_token # 0
    THEN TokenAnswers(n) ELSE {Unasked}

Save2In(rf) == IF rf.outcome = "ok" /\ rf.refresh_token # 0 THEN SaveOutcomes ELSE {"ok"}

Save3In(rf) == IF rf.outcome = "ok" /\ rf.access_token # 0 THEN SaveOutcomes ELSE {"ok"}

\* ------------------------------------------------------------ dictionaries
None == "None"
EmptyDict == <<>>

Has(d, k) == k \in DOMAIN d

Get(d, k) == IF k \in DOMAIN d THEN d[k] ELSE None

\* Python truth of a string valued entry: a missing key, None and "" are falsy
Truthy(d, k) == k \in DOMAIN d /\ d[k] \notin {None, ""}

\* --------------------------------------------------------------- gateway
\* A JSON body that parses but is not an object
JsonArray == [array |-> "[]"]

Body(kind, text, json) == [kind |-> kind, text |-> text, json |-> json]

NoBody == Body("empty", "", EmptyDict)

Http(status, body) == [kind |-> "http", status |-> status, body |-> body]

TransportFailure == [kind |-> "transport", status |-> 0, body |-> NoBody]

Result(success, payload, message) ==
    [success |-> success, payload |-> payload, message |-> message, raised |-> FALSE]

\* an exception that leaves the function instead of a result
Raised(what) ==
    [success |-> FALSE, payload |-> EmptyDict, message |-> <<what>>, raised |-> TRUE]

SupportedMethods == {"GET", "POST", "PUT", "DELETE"}

SuccessStatuses == {200, 201, 204}

\* a gateway that hands the parsed error body back as the payload of a failure
_make_api_call_error_payload(method, answer) ==
    IF method \notin SupportedMethods
    THEN Result(FALSE, EmptyDict, <<"Unsupported HTTP method: ", method>>)
    ELSE IF answer.kind = "transport"
    THEN Result(FALSE, EmptyDict, <<"Request failed: ", "transport">>)
    ELSE IF answer.status \in SuccessStatuses
    THEN IF answer.status = 204 \/ answer.body.text = ""
         THEN Result(TRUE, EmptyDict, <<>>)
         ELSE IF answer.body.kind = "text"
         THEN Result(TRUE, [message |-> "Success"], <<>>)
         ELSE Result(TRUE, answer.body.json, <<>>)
    ELSE IF answer.body.kind = "object"
    THEN Result(FALSE, answer.body.json,
                <<"HTTP ", ToString(answer.status), ": ",
                  IF Has(answer.body.json, "message") THEN answer.body.json["message"]
                  ELSE answer.body.text>>)
    ELSE IF answer.body.kind = "array"
    THEN Result(FALSE, EmptyDict, <<"Unexpected error: ", "AttributeError">>)
    ELSE Result(FALSE, EmptyDict, <<"HTTP ", ToString(answer.status), ": ", answer.body.text>>)

_make_api_call(method, answer) ==
    IF method \notin SupportedMethods
    THEN Result(FALSE, EmptyDict, <<"Unsupported HTTP method: ", method>>)
    ELSE IF answer.kind = "transport"
    THEN Result(FALSE, EmptyDict, <<"Request failed: ", "transport">>)
    ELSE IF answer.status \in SuccessStatuses
    THEN IF answer.status = 204 \/ answer.body.text = ""
         THEN Result(TRUE, EmptyDict, <<>>)
         ELSE IF answer.body.kind = "text"
         THEN Result(TRUE, [message |-> "Success"], <<>>)
         ELSE Result(TRUE, answer.body.json, <<>>)
    ELSE IF answer.body.kind = "object"
    THEN Result(FALSE, EmptyDict,
                <<"HTTP ", ToString(answer.status), ": ",
                  IF Has(answer.body.json, "message") THEN answer.body.json["message"]
                  ELSE answer.body.text>>)
    ELSE IF answer.body.kind = "array"
    THEN Result(FALSE, EmptyDict, <<"Unexpected error: ", "AttributeError">>)
    ELSE Result(FALSE, EmptyDict, <<"HTTP ", ToString(answer.status), ": ", answer.body.text>>)

\* One entry of the log of requests put on the wire, with the result
\* _make_api_call made of the answer.
Call(method, url, has_data, data, token, answer) ==
    [method |-> method, url |-> url, has_data |-> has_data, data |-> data,
     token |-> token, answer |-> answer, result |-> _make_api_call(method, answer)]

\* the requests _make_api_call sends: none for an unsupported method
Sent(method, url, has_data, data, token, answer) ==
    IF method \in SupportedMethods
    THEN <<Call(method, url, has_data, data, token, answer)>>
    ELSE <<>>

Done(result, calls) == [result |-> result, calls |-> calls]

\* an upsert that posts the item to the collection instead of its own URL
create_inventory_item_post(sku, product_data, quantity, token, answer) ==
    LET body == [title |-> IF Has(product_data, "title") THEN product_data["title"] ELSE "",
                 quantity |-> quantity]
    IN  Done(_make_api_call("POST", answer),
             Sent("POST", <<"inventory_item">>, TRUE, body, token, answer))

\* an upsert that sends the request a second time when it failed
create_inventory_item_retry(sku, product_data, quantity, token, answer) ==
    LET url == <<"inventory_item", sku>>
        body == [title |-> IF Has(product_data, "title") THEN product_data["title"] ELSE "",
                 quantity |-> quantity]
        once == Sent("PUT", url, TRUE, body, token, answer)
    IN  Done(_make_api_call("PUT", answer),
             IF _make_api_call("PUT", answer).success THEN once ELSE once \o once)

create_inventory_item(sku, product_data, quantity, token, answer) ==
    LET url == <<"inventory_item", sku>>
        body == [title |-> IF Has(product_data, "title") THEN product_data["title"] ELSE "",
                 quantity |-> quantity]
    IN  Done(_make_api_call("PUT", answer), Sent("PUT", url, TRUE, body, token, answer))

RequiredFields ==
    <<"categoryId", "merchantLocationKey", "paymentPolicyId",
      "fulfillmentPolicyId", "returnPolicyId">>

IsMissing(offer_data, field) == ~Truthy(offer_data, field)

\* a validation that stops at the first missing field
MissingFields_first(offer_data) ==
    LET all == SelectSeq(RequiredFields, LAMBDA f : IsMissing(offer_data, f))
    IN  IF all = <<>> THEN <<>> ELSE <<Head(all)>>

MissingFields(offer_data) ==
    SelectSeq(RequiredFields, LAMBDA f : IsMissing(offer_data, f))

\* f"{price_value:.2f}": the price, in cents, as units and two decimals
FormatPrice(cents) == <<ToString(cents \div 100), ".", ToString((cents % 100) \div 10),
                        ToString(cents % 10)>>

\* an offer body that always has the start date field, 0 standing for none
OfferBody_start_sentinel(sku, offer_data) ==
    [sku |-> sku,
     categoryId |-> Get(offer_data, "categoryId"),
     merchantLocationKey |-> Get(offer_data, "merchantLocationKey"),
     price |-> IF Has(offer_data, "price") THEN FormatPrice(offer_data["price"])
               ELSE <<None>>,
     fulfillmentPolicyId |-> Get(offer_data, "fulfillmentPolicyId"),
     paymentPolicyId |-> Get(offer_data, "paymentPolicyId"),
     returnPolicyId |-> Get(offer_data, "returnPolicyId"),
     listingStartDate |-> IF Has(offer_data, "listingStartDate")
                          THEN offer_data["listingStartDate"] ELSE 0]

OfferBody(sku, offer_data) ==
    [sku |-> sku,
     categoryId |-> Get(offer_data, "categoryId"),
     merchantLocationKey |-> Get(offer_data, "merchantLocationKey"),
     price |-> IF Has(offer_data, "price") THEN FormatPrice(offer_data["price"])
               ELSE <<None>>,
     fulfillmentPolicyId |-> Get(offer_data, "fulfillmentPolicyId"),
     paymentPolicyId |-> Get(offer_data, "paymentPolicyId"),
     returnPolicyId |-> Get(offer_data, "returnPolicyId")]
    @@ (IF Has(offer_data, "listingStartDate") /\ offer_data["listingStartDate"] # 0
        THEN [listingStartDate |-> offer_data["listingStartDate"]] ELSE EmptyDict)

create_offer(sku, offer_data, token, answer) ==
    LET missing == MissingFields(offer_data)
    IN  IF missing # <<>>
        THEN Done(Result(FALSE, EmptyDict, <<"Missing required offer fields: ">> \o missing), <<>>)
        ELSE IF ~Has(offer_data, "price")
        THEN Done(Result(FALSE, EmptyDict, <<"Missing required offer field: ", "price">>), <<>>)
        ELSE LET result == _make_api_call("POST", answer)
                 calls == Sent("POST", <<"offer">>, TRUE, OfferBody(sku, offer_data), token, answer)
             IN  IF result.success /\ result.payload = JsonArray
                 THEN Done(Raised("AttributeError"), calls)
                 ELSE Done(result, calls)

\* start_date is accepted and not used: the request has no body
publish_offer(offer_id, start_date, token, answer) ==
    Done(_make_api_call("POST", answer),
         Sent("POST", <<"offer", offer_id, "publish">>, FALSE, EmptyDict, token, answer))

GeneratedSku == "LISTING_now"

\* the tests between the steps of the saga
\* a saga that goes on after a failed step
StepFailed_ignored(result) == FALSE

StepFailed(result) == ~result.success

\* a saga that reads the offer identifier under the wrong key
OfferIdMissing_wrong_key(offer_response) == ~Truthy(offer_response, "offer_id")

\* a saga that only tests whether the key is there
OfferIdMissing_key_absent(offer_response) == ~Has(offer_response, "offerId")

OfferIdMissing(offer_response) == ~Truthy(offer_response, "offerId")

create_scheduled_listing(listing_data, token, a1, a2, a3) ==
    LET sku == IF Has(listing_data, "sku") THEN listing_data["sku"] ELSE GeneratedSku
        product == IF Has(listing_data, "product") THEN listing_data["product"] ELSE EmptyDict
        quantity == IF Has(listing_data, "quantity") THEN listing_data["quantity"] ELSE 1
        offer == IF Has(listing_data, "offer") THEN listing_data["offer"] ELSE EmptyDict
        inv == create_inventory_item(sku, product, quantity, token, a1)
    IN  IF StepFailed(inv.result)
        THEN Done(Result(FALSE, EmptyDict,
                         <<"Failed to create inventory item: ">> \o inv.result.message),
                  inv.calls)
        ELSE
        LET off == create_offer(sku, offer, token, a2)
            calls2 == inv.calls \o off.calls
        IN  IF off.result.raised
            THEN Done(Result(FALSE, EmptyDict,
                             <<"Error creating scheduled listing: ">> \o off.result.message),
                      calls2)
            ELSE IF StepFailed(off.result)
            THEN Done(Result(FALSE, EmptyDict,
                             <<"Failed to create offer: ">> \o off.result.message), calls2)
            ELSE IF OfferIdMissing(off.result.payload)
            THEN Done(Result(FALSE, EmptyDict,
                             <<"Offer created but offerId missing in response">>), calls2)
            ELSE
            LET publish_start ==
                    IF Has(offer, "listingStartDate") /\ offer["listingStartDate"] # 0
                    THEN offer["listingStartDate"]
                    ELSE IF Has(listing_data, "publishStartDate")
                    THEN listing_data["publishStartDate"] ELSE 0
                pub == publish_offer(off.result.payload["offerId"], publish_start, token, a3)
                calls3 == calls2 \o pub.calls
            IN  IF StepFailed(pub.result)
                THEN Done(Result(FALSE, EmptyDict,
                                 <<"Failed to publish offer: ">> \o pub.result.message), calls3)
                ELSE Done(Result(TRUE,
                                 [sku |-> sku,
                                  inventoryResponse |-> inv.result.payload,
                                  offerResponse |-> off.result.payload,
                                  publishResponse |-> pub.result.payload], <<>>), calls3)

\* ------------------------------------------------------------ Sell API
\* The answers of the Sell API to one request: the documented success body
\* of the endpoint, and the ways an answer can differ from it.
IdentifierBody(endpoint) ==
    CASE endpoint = "offer" -> Body("object", "{offerId}", [offerId |-> "OFFER-1"])
      [] endpoint = "publish" -> Body("object", "{listingId}", [listingId |-> "LISTING-1"])
      [] OTHER -> Body("object", "{}", EmptyDict)

SellAnswers(endpoint) ==
    {TransportFailure,
     Http(200, IdentifierBody(endpoint)),
     Http(202, IdentifierBody(endpoint)),
     Http(204, NoBody),
     Http(200, Body("text", "<html>", EmptyDict)),
     Http(400, Body("object", "{message}", [message |-> "bad request"])),
     Http(500, Body("text", "<html>", EmptyDict))}
    \cup
    (IF endpoint = "inventory_item" THEN {}
     ELSE {Http(409, Body("object", "{errors}", [errors |-> "conflict"]))})
    \cup
    (IF endpoint # "offer" THEN {}
     ELSE {Http(201, IdentifierBody(endpoint)),
           Http(200, Body("object", "{warnings}", [warnings |-> "w"])),
           Http(200, Body("object", "{offerId: ''}", [offerId |-> ""])),
           Http(200, Body("array", "[]", JsonArray))})

NotAsked == TransportFailure

\* The inventory items the Sell API holds, in the order they were created:
\* a PUT the API accepts creates or replaces the item at its URL, a POST to
\* the collection creates one more item, a DELETE removes the item.
Accepted(answer) == answer.kind = "http" /\ answer.status >= 200 /\ answer.status <= 299

Item(call) == [url |-> call.url, data |-> call.data]

RemotePut(items, call) ==
    IF \E i \in 1..Len(items) : items[i].url = call.url
    THEN [i \in 1..Len(items) |-> IF items[i].url = call.url THEN Item(call) ELSE items[i]]
    ELSE Append(items, Item(call))

RemoteStep(items, call) ==
    IF ~Accepted(call.answer) \/ call.url[1] # "inventory_item" THEN items
    ELSE CASE call.method = "PUT" /\ Len(call.url) = 2 -> RemotePut(items, call)
           [] call.method = "POST" /\ Len(call.url) = 1 -> Append(items, Item(call))
           [] call.method = "DELETE" /\ Len(call.url) = 2 ->
                 SelectSeq(items, LAMBDA item : item.url # call.url)
           [] OTHER -> items

RECURSIVE Remote(_, _)
Remote(items, calls) ==
    IF calls = <<>> THEN items
    ELSE Remote(RemoteStep(items, Head(calls)), Tail(calls))

\* ------------------------------------------------------- listing requests
OfferKeys == {"categoryId", "merchantLocationKey", "paymentPolicyId",
              "fulfillmentPolicyId", "returnPolicyId", "price"}

SamplePrice == 129900

SampleStart == 90000

OfferValue(k) ==
    CASE k = "price" -> SamplePrice
      [] k = "categoryId" -> "111422"
      [] k = "merchantLocationKey" -> "primary_warehouse"
      [] k = "listingStartDate" -> SampleStart
      [] OTHER -> k

\* an offer dictionary holding the keys of present, and a start date or not
OfferData(present, start) ==
    [k \in present \cup (IF start # 0 THEN {"listingStartDate"} ELSE {}) |->
        IF k = "listingStartDate" THEN start ELSE OfferValue(k)]

SampleProduct == [title |-> "MacBook Pro"]

ListingData(sku, present, start) ==
    (IF sku # None THEN [sku |-> sku] ELSE EmptyDict)
    @@ [product |-> SampleProduct, offer |-> OfferData(present, start), quantity |-> 1]
    @@ (IF start # 0 THEN [publishStartDate |-> start] ELSE EmptyDict)

SkuChoices == {None, "SKU-1"}

StartChoices == {0, SampleStart}

\* the token the client under test was constructed with
ClientToken == 1

\* ------------------------------------------------------------ application
\* config.py DEFAULTS: the values of a configuration nobody has filled in
DEFAULTS ==
    [REDIRECT_URI |-> "YOUR_RUNAME",
     PAYMENT_POLICY_ID |-> "YOUR_PAYMENT_POLICY_ID",
     FULFILLMENT_POLICY_ID |-> "YOUR_FULFILLMENT_POLICY_ID",
     RETURN_POLICY_ID |-> "YOUR_RETURN_POLICY_ID",
     MERCHANT_LOCATION_KEY |-> "primary_warehouse"]

\* setup_and_run.py PLACEHOLDERS: the sentinels of the fields modelled
PLACEHOLDERS ==
    [REDIRECT_URI |-> "YOUR_RUNAME",
     PAYMENT_POLICY_ID |-> "YOUR_PAYMENT_POLICY_ID",
     FULFILLMENT_POLICY_ID |-> "YOUR_FULFILLMENT_POLICY_ID",
     RETURN_POLICY_ID |-> "YOUR_RETURN_POLICY_ID",
     MERCHANT_LOCATION_KEY |-> "YOUR_MERCHANT_LOCATION_KEY"]

\* a config.json filled in with the seller's values
Configured ==
    [REDIRECT_URI |-> "Seller-App-RuName",
     PAYMENT_POLICY_ID |-> "PAY-1",
     FULFILLMENT_POLICY_ID |-> "SHIP-1",
     RETURN_POLICY_ID |-> "RET-1",
     MERCHANT_LOCATION_KEY |-> "seller_warehouse"]

PolicyFields ==
    <<"PAYMENT_POLICY_ID", "FULFILLMENT_POLICY_ID", "RETURN_POLICY_ID",
      "MERCHANT_LOCATION_KEY">>

\* the values of the model for which value.startswith("YOUR_") is true
StartsWithYOUR(value) ==
    value \in {PLACEHOLDERS[k] : k \in DOMAIN PLACEHOLDERS} \cup {"YOUR_PRODUCTION_RUNAME"}

\* _load_config: DEFAULTS, updated with what config.json holds
ConfigChoices ==
    {DEFAULTS, Configured}
    \cup {[Configured EXCEPT !.REDIRECT_URI = r] : r \in {"", "YOUR_RUNAME", "YOUR_PRODUCTION_RUNAME"}}
    \cup {[Configured EXCEPT ![PolicyFields[i]] = PLACEHOLDERS[PolicyFields[i]]] :
             i \in 1..Len(PolicyFields)}

RedirectArguments == {None, "Seller-App-RuName"}

\* line 60: redirect_uri or getattr(self.config, 'REDIRECT_URI', None)
effective_redirect_uri(redirect_uri, cfg) ==
    IF redirect_uri \notin {None, ""} THEN redirect_uri ELSE cfg.REDIRECT_URI

\* line 61: the test that refuses to start the OAuth2 flow
RedirectRefused(effective) ==
    effective \in {None, ""} \/ effective = "YOUR_PRODUCTION_RUNAME"

\* a validation that looks at the three policy identifiers only
validate_policies_ids_only(cfg) ==
    SelectSeq(PolicyFields, LAMBDA k : k # "MERCHANT_LOCATION_KEY" /\ StartsWithYOUR(cfg[k]))

validate_policies(cfg) ==
    SelectSeq(PolicyFields, LAMBDA k : StartsWithYOUR(cfg[k]))

get_policy_config(cfg) ==
    [paymentPolicyId |-> cfg.PAYMENT_POLICY_ID,
     fulfillmentPolicyId |-> cfg.FULFILLMENT_POLICY_ID,
     returnPolicyId |-> cfg.RETURN_POLICY_ID,
     merchantLocationKey |-> cfg.MERCHANT_LOCATION_KEY]

LocationKey == "primary_warehouse"

create_inventory_location(location_key, token, answer) ==
    Done(_make_api_call("POST", answer),
         Sent("POST", <<"location", location_key>>, TRUE,
              [name |-> "Primary Warehouse"], token, answer))

\* "already exists" in error.lower() or "409" in error
LocationExists(message) ==
    \E i \in 1..Len(message) : message[i] \in {"409", "Location already exists"}

LocationReady(result) == result.success \/ LocationExists(result.message)

\* the lead time: unset (None), or a number of quarters of an hour
Unset == [unset |-> TRUE, quarters |-> 0]

Lead(quarters) == [unset |-> FALSE, quarters |-> quarters]

QuarterChoices == {0 - 4, 0, 1, 2, 3, 4, 96}

HoursChoices == {Unset} \cup {Lead(q) : q \in QuarterChoices}

QuarterSeconds == 900

min_buffer_minutes == 30

\* timedelta, in readings of the clock
Quarters(q) == q * QuarterSeconds * Resolution

Minutes(m) == m * 60 * Resolution

\* strftime('%Y-%m-%dT%H:%M:%S.000Z'): the whole seconds of the reading
strftime(reading) == reading \div Resolution

\* a normalization that forgets the thirty minute floor
schedule_time_unclamped(schedule_hours, u1, u2, u3) ==
    IF ~schedule_hours.unset /\ schedule_hours.quarters # 0 /\ schedule_hours.quarters > 0
    THEN strftime(u1 + Quarters(schedule_hours.quarters))
    ELSE 0

\* lines 194-200, for the three readings utcnow() returns; 0: None
schedule_time(schedule_hours, u1, u2, u3) ==
    IF ~schedule_hours.unset /\ schedule_hours.quarters # 0 /\ schedule_hours.quarters > 0
    THEN LET schedule_dt == u1 + Quarters(schedule_hours.quarters)
         IN  IF schedule_dt < u2 + Minutes(min_buffer_minutes)
             THEN strftime(u3 + Minutes(min_buffer_minutes))
             ELSE strftime(schedule_dt)
    ELSE 0

SampleSku == "SAMPLE_LAPTOP_now"

LAPTOP_CATEGORY_ID == "111422"

\* lines 246-275: the listing request of the sample laptop
SampleListing(cfg, start) ==
    LET offer_data ==
            (IF start # 0 THEN [listingStartDate |-> start] ELSE EmptyDict)
            @@ get_policy_config(cfg)
            @@ [categoryId |-> LAPTOP_CATEGORY_ID, price |-> SamplePrice]
    IN  (IF start # 0 THEN [publishStartDate |-> start] ELSE EmptyDict)
        @@ [sku |-> SampleSku, product |-> SampleProduct, offer |-> offer_data,
            quantity |-> 1]

\* the answers of the Sell API the application runs are checked against
AppAnswers(endpoint) ==
    {TransportFailure,
     Http(IF endpoint = "inventory_item" THEN 204 ELSE 200,
          IF endpoint = "inventory_item" THEN NoBody ELSE IdentifierBody(endpoint)),
     Http(400, Body("object", "{message}", [message |-> "bad request"]))}
    \cup
    (IF endpoint # "location" THEN {}
     ELSE {Http(409, Body("object", "{errors}", [errors |-> "conflict"])),
           Http(400, Body("object", "{message}", [message |-> "Location already exists"]))})

\* lines 169-303: what one run of create_sample_laptop_listing did
Ran(ok, stage, listing, saga, calls, cfg) ==
    [ok |-> ok, stage |-> stage, listing |-> listing, saga |-> saga, calls |-> calls,
     config |-> cfg]

NoResult == Result(FALSE, EmptyDict, <<>>)

create_sample_laptop_listing(schedule_hours, cfg, client, u1, u2, u3, aloc, a1, a2, a3) ==
    IF client = 0
    THEN Ran(FALSE, "no_client", EmptyDict, NoResult, <<>>, cfg)
    ELSE IF validate_policies(cfg) # <<>>
    THEN Ran(FALSE, "policies", EmptyDict, NoResult, <<>>, cfg)
    ELSE
    LET loc == create_inventory_location(LocationKey, client, aloc)
    IN  IF ~LocationReady(loc.result)
        THEN Ran(FALSE, "location", EmptyDict, NoResult, loc.calls, cfg)
        ELSE
        LET ready == [cfg EXCEPT !.MERCHANT_LOCATION_KEY = LocationKey]
            listing == SampleListing(ready, schedule_time(schedule_hours, u1, u2, u3))
            saga == create_scheduled_listing(listing, client, a1, a2, a3)
        IN  Ran(saga.result.success, "saga", listing, saga.result,
                loc.calls \o saga.calls, ready)

\* ------------------------------------------------------------------ state
VARIABLES
    now,        \* the clock, epoch seconds
    file,       \* ebay_tokens.json
    issued,     \* tokens issued so far by the token endpoint
    auth,       \* the last get_valid_access_token call
    http,       \* the requests the last operation put on the wire
    res,        \* the last operation: its name, input and result
    config,     \* the application's eBayConfig instance
    api_client, \* the token of the application's eBaySellAPIClient, 0: None
    inventory   \* the inventory items the Sell API holds

vars == <<now, file, issued, auth, http, res, config, api_client, inventory>>

tokenVars == <<now, file, issued, auth>>

gatewayVars == <<http, res, inventory>>

appVars == <<config, api_client>>

\* auth.prev: how the call before the last one ended, and whether it prompted
NoCall == [op |-> "none", at |-> 0, pre |-> NoFile,
           out |-> Outcome(0, NoFile, 0, <<>>, FALSE, 0, "none") @@ [inputs |-> NoInputs],
           prev |-> [path |-> "none", prompted |-> FALSE]]

NoOp == [op |-> "none", input |-> EmptyDict, result |-> NoResult]

Fresh ==
    /\ now = T0
    /\ file = NoFile
    /\ issued = 0
    /\ auth = NoCall
    /\ http = <<>>
    /\ res = NoOp
    /\ api_client = 0
    /\ inventory = <<>>

Init == Fresh /\ config = DEFAULTS

\* the application, constructed over any config.json
InitApp == Fresh /\ config \in ConfigChoices

\* the application after its first setup_authentication succeeded: the
\* record of the first exchange is on file and the client holds its token
FirstRecord ==
    [access_token |-> ClientToken, refresh_token |-> ClientToken + 1,
     expires_in |-> SafetyBuffer + 2 * TickStep, obtained_at |-> T0]

InitSession ==
    /\ now = T0
    /\ file = _save_tokens(NoFile, FirstRecord, "ok")
    /\ issued = 2
    /\ auth = NoCall
    /\ http = <<>>
    /\ res = NoOp
    /\ inventory = <<>>
    /\ api_client \in {0, ClientToken}
    /\ config \in {c \in ConfigChoices : ~RedirectRefused(c.REDIRECT_URI)}

Tick ==
    /\ now + TickStep <= MaxNow
    /\ now' = now + TickStep
    /\ UNCHANGED <<file, issued, auth, gatewayVars, appVars>>

\* every way one get_valid_access_token call can go
TokenCallOutcomes(f, t, n) ==
    UNION {UNION {UNION {
        LET a == Acquire(f, t, consent, ex, save1)
        IN  UNION {{get_valid_access_token(f, t, consent, ex, rf, save1, save2, save3)
                        @@ [inputs |-> Inputs(consent, ex, rf, <<save1, save2, save3>>)] :
                        save2 \in Save2In(rf), save3 \in Save3In(rf)} :
                   rf \in RefreshIn(a.token_data, a.t, n + a.issued)} :
        save1 \in Save1In(f, ex)} :
        ex \in ExchangeIn(f, consent, n)} :
        consent \in ConsentIn(f)}

Called(out) ==
    [op |-> "get_valid_access_token", at |-> now, pre |-> file, out |-> out,
     prev |-> [path |-> auth.out.path, prompted |-> auth.out.prompted]]

GetValidAccessToken ==
    \E out \in TokenCallOutcomes(file, now, issued) :
        /\ auth' = Called(out)
        /\ file' = out.file
        /\ now' = out.t
        /\ issued' = issued + out.issued
        /\ UNCHANGED <<gatewayVars, appVars>>

\* the answers a run consumes: a request never sent gets no answer
OfferIn(offer_data) ==
    IF MissingFields(offer_data) = <<>> /\ Has(offer_data, "price")
    THEN SellAnswers("offer") ELSE {NotAsked}

PublishIn(offer_result) ==
    IF ~offer_result.raised /\ offer_result.success /\ Truthy(offer_result.payload, "offerId")
    THEN SellAnswers("publish") ELSE {NotAsked}

\* The caller reads a result before it makes its next request.
Return ==
    /\ res.op # "none"
    /\ res' = NoOp
    /\ http' = <<>>
    /\ auth' = NoCall
    /\ UNCHANGED <<now, file, issued, appVars, inventory>>

CreateOffer ==
    /\ res.op = "none"
    /\ \E present \in SUBSET OfferKeys, start \in StartChoices :
         LET offer_data == OfferData(present, start)
         IN  \E a2 \in OfferIn(offer_data) :
               LET out == create_offer("SKU-1", offer_data, ClientToken, a2)
               IN  /\ res' = [op |-> "create_offer", input |-> offer_data,
                              result |-> out.result]
                   /\ http' = out.calls
                   /\ inventory' = Remote(inventory, out.calls)
                   /\ UNCHANGED <<tokenVars, appVars>>

CreateScheduledListing ==
    /\ res.op = "none"
    /\ \E sku \in SkuChoices, present \in SUBSET OfferKeys, start \in StartChoices :
         LET listing_data == ListingData(sku, present, start)
         IN  \E a1 \in SellAnswers("inventory_item") :
               \E a2 \in IF _make_api_call("PUT", a1).success
                         THEN OfferIn(listing_data["offer"]) ELSE {NotAsked} :
                 \E a3 \in IF _make_api_call("PUT", a1).success
                           THEN PublishIn(create_offer("SKU-1", listing_data["offer"],
                                                       ClientToken, a2).result)
                           ELSE {NotAsked} :
                   LET out == create_scheduled_listing(listing_data, ClientToken, a1, a2, a3)
                   IN  /\ res' = [op |-> "create_scheduled_listing", input |-> listing_data,
                                  result |-> out.result]
                       /\ http' = out.calls
                       /\ inventory' = Remote(inventory, out.calls)
                       /\ UNCHANGED <<tokenVars, appVars>>

\* lines 46-88
SetupAuthentication ==
    /\ res.op = "none"
    /\ \E redirect_uri \in RedirectArguments :
         LET effective == effective_redirect_uri(redirect_uri, config)
             input == [redirect_uri |-> redirect_uri, effective |-> effective]
         IN  IF RedirectRefused(effective)
             THEN /\ res' = [op |-> "setup_authentication", input |-> input,
                             result |-> [ok |-> FALSE, called |-> FALSE]]
                  /\ UNCHANGED <<tokenVars, http, inventory, appVars>>
             ELSE \E out \in TokenCallOutcomes(file, now, issued) :
                    /\ auth' = Called(out)
                    /\ file' = out.file
                    /\ now' = out.t
                    /\ issued' = issued + out.issued
                    /\ api_client' = IF out.result # 0 THEN out.result ELSE api_client
                    /\ res' = [op |-> "setup_authentication", input |-> input,
                               result |-> [ok |-> out.result # 0, called |-> TRUE]]
                    /\ UNCHANGED <<http, inventory, config>>

\* the three readings of utcnow() one run makes
Readings(t) ==
    {<<u1, u1 + d2, u1 + d2 + d3>> :
        u1 \in {t * Resolution + o : o \in 0..(Resolution - 1)},
        d2 \in 0..MaxDrift, d3 \in 0..MaxDrift}

LocationIn(cfg, client) ==
    IF client # 0 /\ validate_policies(cfg) = <<>> THEN AppAnswers("location") ELSE {NotAsked}

AppOfferIn(inventory_result) ==
    IF inventory_result.success THEN AppAnswers("offer") ELSE {NotAsked}

AppPublishIn(inventory_result, offer_result) ==
    IF inventory_result.success /\ offer_result.success
       /\ Truthy(offer_result.payload, "offerId")
    THEN AppAnswers("publish") ELSE {NotAsked}

\* lines 169-303
CreateSampleLaptopListing ==
    /\ res.op = "none"
    /\ \E schedule_hours \in HoursChoices, u \in Readings(now) :
         \E aloc \in LocationIn(config, api_client) :
           \E a1 \in IF LocationReady(_make_api_call("POST", aloc))
                     THEN AppAnswers("inventory_item") ELSE {NotAsked} :
             \E a2 \in AppOfferIn(_make_api_call("PUT", a1)) :
               \E a3 \in AppPublishIn(_make_api_call("PUT", a1), _make_api_call("POST", a2)) :
                 LET out == create_sample_laptop_listing(schedule_hours, config, api_client,
                                                         u[1], u[2], u[3], aloc, a1, a2, a3)
                 IN  /\ res' = [op |-> "create_sample_laptop_listing",
                                input |-> [schedule_hours |-> schedule_hours, readings |-> u,
                                          config |-> config],
                                result |-> [ok |-> out.ok, stage |-> out.stage,
                                            listing |-> out.listing, saga |-> out.saga]]
                     /\ http' = out.calls
                     /\ inventory' = Remote(inventory, out.calls)
                     /\ config' = out.config
                     /\ UNCHANGED <<tokenVars, api_client>>

\* the answers one request can get: every status of StatusChoices with
\* every kind of body (a 204 has none), or no answer at all
StatusChoices == {200, 201, 202, 203, 204, 299, 301, 400, 404, 500}

BodyChoices ==
    {NoBody,
     Body("object", "{message}", [message |-> "bad request"]),
     Body("object", "{errors}", [errors |-> "conflict"]),
     Body("text", "<html>", EmptyDict),
     Body("array", "[]", JsonArray)}

GatewayAnswers ==
    {TransportFailure}
    \cup {Http(s, b) : s \in StatusChoices \ {204}, b \in BodyChoices}
    \cup {Http(204, NoBody)}

MethodChoices == SupportedMethods \cup {"PATCH"}

\* lines 33-104: one call of _make_api_call by a caller of the client
MakeApiCall ==
    /\ res.op = "none"
    /\ \E method \in MethodChoices, has_data \in BOOLEAN :
         \E answer \in IF method \in SupportedMethods THEN GatewayAnswers ELSE {NotAsked} :
           /\ res' = [op |-> "_make_api_call",
                      input |-> [method |-> method, has_data |-> has_data, answer |-> answer],
                      result |-> _make_api_call(method, answer)]
           /\ http' = Sent(method, <<"inventory_item", "SKU-1">>,
                           has_data /\ method \in {"POST", "PUT"},
                           IF has_data /\ method \in {"POST", "PUT"}
                           THEN [title |-> "MacBook Pro"] ELSE EmptyDict,
                           ClientToken, answer)
           /\ inventory' = Remote(inventory, http')
           /\ UNCHANGED <<tokenVars, appVars>>

SkuInputs == {"SKU-1", "SKU-2"}

TitleInputs == {"MacBook Pro", "MacBook Air"}

\* the title the Sell API holds for a sku, None when it holds no item
HeldTitle(items, sku) ==
    IF \E i \in 1..Len(items) : items[i].url = <<"inventory_item", sku>>
    THEN (items[CHOOSE i \in 1..Len(items) : items[i].url = <<"inventory_item", sku>>]).data.title
    ELSE None

\* lines 106-137: one call of create_inventory_item
CreateInventoryItem ==
    /\ res.op = "none"
    /\ \E sku \in SkuInputs, title \in TitleInputs, answer \in SellAnswers("inventory_item") :
         LET out == create_inventory_item(sku, [title |-> title], 1, ClientToken, answer)
         IN  /\ res' = [op |-> "create_inventory_item",
                        input |-> [sku |-> sku, title |-> title,
                                   before |-> HeldTitle(inventory, sku)],
                        result |-> out.result]
             /\ http' = out.calls
             /\ inventory' = Remote(inventory, out.calls)
             /\ UNCHANGED <<tokenVars, appVars>>

\* the token records a caller saves: what the token endpoint can answer,
\* stamped (obtained_at) by the exchange or raw (no obtained_at) by the refresh
TokenRecords ==
    {[access_token |-> a, refresh_token |-> r, expires_in |-> e, obtained_at |-> o] :
        a \in 1..2, r \in {0, 2}, e \in ExpiresInChoices, o \in {0, T0, MaxNow}}

NothingSaved == [token_data |-> NoTokens, outcome |-> "none"]

\* lines 177-184: one call of _save_tokens
SaveTokens ==
    /\ res.op = "none"
    /\ \E token_data \in TokenRecords, outcome \in SaveOutcomes :
         /\ file' = _save_tokens(file, token_data, outcome)
         /\ res' = [op |-> "_save_tokens",
                    input |-> [token_data |-> token_data, outcome |-> outcome],
                    result |-> NoTokens]
         /\ UNCHANGED <<now, issued, auth, http, inventory, appVars>>

\* lines 186-195: one call of load_tokens, right after a save or on its own
LoadTokens ==
    /\ res.op \in {"none", "_save_tokens"}
    /\ res' = [op |-> "load_tokens",
               input |-> IF res.op = "_save_tokens" THEN res.input ELSE NothingSaved,
               result |-> load_tokens(file)]
    /\ UNCHANGED <<tokenVars, http, inventory, appVars>>

Next == Tick \/ GetValidAccessToken

Spec == Init /\ [][Next]_vars

NextSaga == CreateOffer \/ CreateScheduledListing \/ Return

SpecSaga == Init /\ [][NextSaga]_vars

NextInventory == CreateInventoryItem \/ Return

SpecInventory == Init /\ [][NextInventory]_vars

NextStore == SaveTokens \/ LoadTokens \/ Return

SpecStore == Init /\ [][NextStore]_vars

NextGateway == MakeApiCall \/ Return

SpecGateway == Init /\ [][NextGateway]_vars

\* the three operations of the client that return a result triple
NextClient == MakeApiCall \/ CreateOffer \/ CreateScheduledListing \/ Return

SpecClient == Init /\ [][NextClient]_vars

NextSetup == Tick \/ SetupAuthentication \/ Return

SpecSetup == InitApp /\ [][NextSetup]_vars

NextListing == CreateSampleLaptopListing \/ Return

SpecListing == InitSession /\ [][NextListing]_vars

\* run_interactive_mode after its setup_authentication: listings are
\* requested one after the other while time passes
NextSession == Tick \/ CreateSampleLaptopListing \/ Return

SpecSession == InitSession /\ [][NextSession]_vars

\* ----------------------------------------------------------------- claims
IsTokenCall == auth.op = "get_valid_access_token"

RefreshRequests(reqs) == SelectSeq(reqs, LAMBDA q : q.grant = "refresh_token")

ExpiryOf(rec) == rec.obtained_at + rec.expires_in - 300

\* C1: a call that loads a persisted record returns the stored access token
\* and sends nothing to the token endpoint while now < obtained_at +
\* expires_in - 300; from that instant on it does not return the stored
\* token: it sends one refresh request carrying the stored refresh token
\* (a record without a refresh token has nothing to send and the call
\* returns no token).
C1_ValidityDecidesCachedOrRefresh ==
    (IsTokenCall /\ auth.pre.kind = "record") =>
        LET rec == load_tokens(auth.pre)
        IN  IF auth.at < ExpiryOf(rec)
            THEN /\ auth.out.result = rec.access_token
                 /\ auth.out.reqs = <<>>
            ELSE /\ auth.out.path # "cached"
                 /\ auth.out.result # rec.access_token
                 /\ IF rec.refresh_token # 0
                    THEN auth.out.reqs = <<[grant |-> "refresh_token",
                                            refresh_token |-> rec.refresh_token]>>
                    ELSE auth.out.reqs = <<>> /\ auth.out.result = 0

\* a call made at the very instant the buffer starts, refreshing
C1_Witness ==
    /\ IsTokenCall /\ auth.pre.kind = "record"
    /\ load_tokens(auth.pre).refresh_token # 0
    /\ load_tokens(auth.pre).obtained_at # 0 /\ load_tokens(auth.pre).expires_in # 0
    /\ auth.at = ExpiryOf(load_tokens(auth.pre))
    /\ Len(auth.out.reqs) = 1

IsSaga == res.op = "create_scheduled_listing"

Endpoint(call) == IF Len(call.url) = 3 THEN "publish" ELSE call.url[1]

IsUpsert(call) == call.method = "PUT" /\ Endpoint(call) = "inventory_item"

IsOfferCall(call) == call.method = "POST" /\ Endpoint(call) = "offer"

IsPublish(call) == call.method = "POST" /\ Endpoint(call) = "publish"

RequestSku(listing_data) ==
    IF Has(listing_data, "sku") THEN listing_data["sku"] ELSE GeneratedSku

ExposesOfferId(payload) ==
    \/ Has(payload, "offerId")
    \/ Has(payload, "offerResponse") /\ Truthy(payload["offerResponse"], "offerId")

ExposesListingId(payload) ==
    \/ Has(payload, "listingId")
    \/ Has(payload, "publishResponse") /\ Truthy(payload["publishResponse"], "listingId")

\* C2: the requests of one create_scheduled_listing run are a prefix of
\* upsert, offer, publish; the offer request is sent only after the upsert
\* returned success and the publish request only after the offer request
\* returned success with an offerId.
C2_SagaOrder ==
    IsSaga =>
        /\ Len(http) <= 3
        /\ Len(http) >= 1 => IsUpsert(http[1])
        /\ Len(http) >= 2 => IsOfferCall(http[2]) /\ http[1].result.success
        /\ Len(http) >= 3 =>
              /\ IsPublish(http[3])
              /\ http[2].result.success
              /\ Truthy(http[2].result.payload, "offerId")
              /\ http[3].url[2] = http[2].result.payload["offerId"]

C2_Witness ==
    IsSaga /\ Len(http) = 3 /\ res.result.success

\* the offer step failed after a successful upsert: validation refused the
\* offer, or the offer request came back as a failure
OfferStepFailed ==
    /\ Len(http) >= 1 /\ http[1].result.success
    /\ \/ Len(http) = 1
       \/ Len(http) = 2 /\ ~http[2].result.success

\* C3: if offer creation fails after a successful upsert, the result is a
\* failure whose payload contains the sku and no offerId and whose message
\* reports the error of the offer step.
C3_OfferFailureKeepsSku ==
    (IsSaga /\ OfferStepFailed) =>
        /\ ~res.result.success
        /\ Has(res.result.payload, "sku")
        /\ ~ExposesOfferId(res.result.payload)
        /\ Len(res.result.message) > 1
        /\ res.result.message[1] = "Failed to create offer: "
        /\ Len(http) = 2 => Tail(res.result.message) = http[2].result.message

PublishStepFailed == Len(http) = 3 /\ ~http[3].result.success

\* C4: if publish fails after upsert and offer creation succeeded, the
\* failure result carries the sku and the offerId already obtained, with
\* the error message of the publish step.
C4_PublishFailureKeepsIds ==
    (IsSaga /\ PublishStepFailed) =>
        /\ ~res.result.success
        /\ Has(res.result.payload, "sku")
        /\ ExposesOfferId(res.result.payload)
        /\ Tail(res.result.message) = http[3].result.message

MissingKeys(offer_data) == OfferKeys \ DOMAIN offer_data

\* C5: a listing request that lacks any of the five identifiers or the
\* price fails without any request having been sent, the inventory PUT
\* included.
C5_ValidationBeforeAnyCall ==
    (IsSaga /\ MissingKeys(res.input["offer"]) # {}) =>
        ~res.result.success /\ http = <<>>

IsCreateOffer == res.op = "create_offer"

Named(message) == {message[i] : i \in 2..Len(message)}

\* C6 as stated: create_offer on an offer that lacks a non-empty set of the
\* six required fields fails, names exactly the missing fields and sends no
\* request.
C6_NamesExactlyTheMissing ==
    (IsCreateOffer /\ MissingKeys(res.input) # {}) =>
        /\ ~res.result.success
        /\ http = <<>>
        /\ Named(res.result.message) = MissingKeys(res.input)

\* C6 amended: it fails and sends no request; the message names exactly
\* the missing identifiers when any of the five is missing, and names price
\* only when price is the only field missing.
C6_NamesMissingIdentifiersThenPrice ==
    (IsCreateOffer /\ MissingKeys(res.input) # {}) =>
        /\ ~res.result.success
        /\ http = <<>>
        /\ Named(res.result.message) =
              IF MissingKeys(res.input) = {"price"} THEN {"price"}
              ELSE MissingKeys(res.input) \ {"price"}

C6_Witness ==
    /\ IsCreateOffer
    /\ MissingKeys(res.input) = {"paymentPolicyId", "returnPolicyId"}
    /\ res.result.message = <<"Missing required offer fields: ",
                              "paymentPolicyId", "returnPolicyId">>
    /\ http = <<>>

\* C8: after a call that found an expired record and could not refresh it,
\* the next call runs the interactive acquisition and sends no refresh.
C8_FailedRefreshCollapsesToNoToken ==
    (IsTokenCall /\ auth.prev.path \in {"no_refresh_token", "refresh_failed"}
                 /\ ~auth.prev.prompted) =>
        /\ auth.out.prompted
        /\ RefreshRequests(auth.out.reqs) = <<>>

\* the success answer the Sell API documents for an endpoint
SuccessAnswers(endpoint) ==
    {Http(200, IdentifierBody(endpoint)), Http(201, IdentifierBody(endpoint))}
    \cup (IF endpoint = "inventory_item" THEN {Http(204, NoBody)} ELSE {})

AnsweredWithSuccess ==
    \A i \in 1..Len(http) : http[i].answer \in SuccessAnswers(Endpoint(http[i]))

CompleteScheduledRequest ==
    /\ MissingKeys(res.input["offer"]) = {}
    /\ Has(res.input["offer"], "listingStartDate")

\* C9: a complete listing request with a start date, run against a remote
\* that answers every request with success, sends exactly PUT inventory
\* item, POST offer, POST publish and returns success, no error and a
\* payload exposing sku, offerId and listingId.
C9_ThreeCallsThenIdentifiers ==
    (IsSaga /\ CompleteScheduledRequest /\ AnsweredWithSuccess) =>
        /\ Len(http) = 3
        /\ IsUpsert(http[1]) /\ IsOfferCall(http[2]) /\ IsPublish(http[3])
        /\ res.result.success
        /\ res.result.message = <<>>
        /\ Has(res.result.payload, "sku")
        /\ res.result.payload["sku"] = RequestSku(res.input)
        /\ ExposesOfferId(res.result.payload)
        /\ res.result.payload["offerResponse"]["offerId"] = "OFFER-1"
        /\ ExposesListingId(res.result.payload)

C9_Witness ==
    /\ IsSaga /\ CompleteScheduledRequest /\ AnsweredWithSuccess
    /\ Len(http) = 3
    /\ res.result.success

IsSetup == res.op = "setup_authentication"

\* C7: when the effective redirect URI is unset or is the placeholder the
\* configuration documents for it, setup_authentication fails before any
\* consent prompt or token endpoint request, and no token is returned.
C7_PlaceholderRedirectRefused ==
    (IsSetup /\ (res.input.effective \in {None, ""}
                 \/ res.input.effective = PLACEHOLDERS.REDIRECT_URI)) =>
        /\ ~res.result.ok
        /\ ~res.result.called
        /\ auth = NoCall

IsSampleListing == res.op = "create_sample_laptop_listing"

\* the listing request was built and handed to the saga
ListingBuilt == IsSampleListing /\ res.result.stage = "saga"

StartOf(listing) ==
    IF Has(listing["offer"], "listingStartDate") THEN listing["offer"]["listingStartDate"]
    ELSE 0

PublishStartOf(listing) ==
    IF Has(listing, "publishStartDate") THEN listing["publishStartDate"] ELSE 0

\* now + delta, to the second, for every reading of the clock the run made
NowPlus(delta) == {strftime(res.input.readings[i] + delta) : i \in 1..3}

StartFields == {"listingStartDate", "publishStartDate"}

\* the offer requests of the last operation
OfferCalls == SelectSeq(http, IsOfferCall)

PublishCalls == SelectSeq(http, IsPublish)

BodyFieldsWithoutStart ==
    {"sku", "categoryId", "merchantLocationKey", "price", "fulfillmentPolicyId",
     "paymentPolicyId", "returnPolicyId"}

IsGatewayCall == res.op = "_make_api_call"

Answered == IsGatewayCall /\ http # <<>> /\ res.input.answer.kind = "http"

Is2xx(status) == status >= 200 /\ status <= 299

\* C12: _make_api_call reports success for every response whose status is
\* in 200..299 and failure for every other status; a 204 or a success
\* response with an empty body gives success with an empty payload.
C12_SuccessIsAny2xx ==
    Answered =>
        LET answer == res.input.answer
        IN  /\ res.result.success <=> Is2xx(answer.status)
            /\ (Is2xx(answer.status) /\ (answer.status = 204 \/ answer.body.text = "")) =>
                   res.result.success /\ res.result.payload = EmptyDict

Unparsable(body) == body.kind = "text" /\ body.text # ""

\* C13: a response with a success status and a non-empty body that is not
\* JSON is reported as a failure of its own category: success flag false
\* and a message that is neither the transport one nor the HTTP status one.
C13_UnparsableSuccessIsParseError ==
    (Answered /\ res.input.answer.status \in SuccessStatuses
              /\ Unparsable(res.input.answer.body)) =>
        /\ ~res.result.success
        /\ res.result.message # <<>>
        /\ res.result.message[1] \notin {"Request failed: ", "HTTP "}

ExpectedFailure ==
    \/ res.input.method \notin SupportedMethods
    \/ res.input.answer.kind = "transport"
    \/ res.input.answer.kind = "http" /\ ~Is2xx(res.input.answer.status)
    \/ res.input.answer.kind = "http" /\ Unparsable(res.input.answer.body)

\* C14: _make_api_call never raises; every transport failure, unparsable
\* response, non-2xx status and unsupported method gives (false, {}, a
\* non-empty message), and an unsupported method sends no request.
C14_NeverRaisesAlwaysFailureTuple ==
    IsGatewayCall =>
        /\ ~res.result.raised
        /\ ExpectedFailure =>
              /\ ~res.result.success
              /\ res.result.payload = EmptyDict
              /\ res.result.message # <<>>
        /\ res.input.method \notin SupportedMethods => http = <<>>

ParsesAsJson(body) == body.kind \in {"object", "array"}

\* C20: for a non-2xx response the message is the HTTP status combined
\* with the message field of the error payload when the body parses as
\* JSON (the raw body text when the payload has no such field), and with
\* the raw body text when it does not parse.
C20_ErrorMessageIsStatusAndDetail ==
    (Answered /\ ~Is2xx(res.input.answer.status)) =>
        LET answer == res.input.answer
            detail == IF ParsesAsJson(answer.body) /\ Has(answer.body.json, "message")
                      THEN answer.body.json["message"] ELSE answer.body.text
        IN  res.result.message = <<"HTTP ", ToString(answer.status), ": ", detail>>

UpsertCalls == SelectSeq(http, IsUpsert)

\* C15: in one create_scheduled_listing run each of the inventory PUT, the
\* offer POST and the publish POST is sent at most once, nothing is sent
\* after a request that failed (so no failed step is sent again and the run
\* stops at the first failure, returning failure), and no DELETE or other
\* undo request is sent.
C15_NoRetryNoCompensation ==
    IsSaga =>
        /\ Len(UpsertCalls) <= 1 /\ Len(OfferCalls) <= 1 /\ Len(PublishCalls) <= 1
        /\ \A i \in 1..Len(http) :
              /\ IsUpsert(http[i]) \/ IsOfferCall(http[i]) \/ IsPublish(http[i])
              /\ http[i].method # "DELETE"
              /\ i < Len(http) => http[i].result.success
        /\ (\E i \in 1..Len(http) : ~http[i].result.success) => ~res.result.success

\* the offer request failed after the upsert went through: two requests
\* were sent, and nothing after the failure
C15_Witness ==
    /\ IsSaga
    /\ Len(http) = 2
    /\ http[1].result.success /\ IsUpsert(http[1])
    /\ ~http[2].result.success /\ IsOfferCall(http[2])
    /\ ~res.result.success

\* a load that directly follows a save whose write went through
LoadedAfterSave ==
    res.op = "load_tokens" /\ res.input.outcome = "ok"

\* C16: for every token record, _save_tokens followed by load_tokens with
\* no write in between returns a record equal to the saved one, field for
\* field (the write to the file having gone through).
C16_SaveLoadRoundTrip ==
    LoadedAfterSave =>
        \A i \in 1..Len(TokenFields) :
            res.result[TokenFields[i]] = res.input.token_data[TokenFields[i]]

\* a record of the refresh path, saved over an earlier record and loaded
C16_Witness ==
    /\ LoadedAfterSave
    /\ res.input.token_data.obtained_at = 0
    /\ res.input.token_data.refresh_token # 0
    /\ res.result = res.input.token_data
    /\ Len(file.text) = 3

ObtainedNow == auth.out.path = "refreshed" \/ (auth.out.prompted /\ auth.out.path = "cached")

\* C17: whenever get_valid_access_token returns a token it obtained by
\* interactive acquisition or by refresh, the access_token of the record
\* on file when the call returns is the returned token, whatever the
\* outcome of the write to the file.
C17_ReturnedTokenIsPersisted ==
    (IsTokenCall /\ auth.out.result # 0 /\ ObtainedNow) =>
        load_tokens(file).access_token = auth.out.result

IsInventoryCall == res.op = "create_inventory_item"

ItemsOf(sku) ==
    SelectSeq(inventory, LAMBDA item : item.url = <<"inventory_item", sku>>)

\* C18: every create_inventory_item call is a PUT on the URL keyed by its
\* sku; after a call that succeeded, also one that follows a call for the
\* same sku with another title, the remote holds exactly one inventory
\* item for that sku, and its title is the one of this call.
C18_UpsertIdempotentBySku ==
    IsInventoryCall =>
        /\ Len(http) = 1
        /\ http[1].method = "PUT"
        /\ http[1].url = <<"inventory_item", res.input.sku>>
        /\ http[1].data.title = res.input.title
        /\ res.result.success =>
              /\ Len(ItemsOf(res.input.sku)) = 1
              /\ ItemsOf(res.input.sku)[1].data.title = res.input.title
        /\ Len(ItemsOf(res.input.sku)) <= 1

\* the second of two calls with the same sku and different titles
C18_Witness ==
    /\ IsInventoryCall
    /\ res.result.success
    /\ res.input.before \notin {None, res.input.title}
    /\ Len(inventory) = 2

\* C19: every request the gateway sends for a listing carries a token
\* that get_valid_access_token deems usable at the time the listing is
\* requested: the access token of the record on file, with now <
\* obtained_at + expires_in - 300; never a token that expired since setup.
C19_CallsCarryUsableToken ==
    (IsSampleListing /\ http # <<>>) =>
        \A i \in 1..Len(http) :
            /\ http[i].token = load_tokens(file).access_token
            /\ is_token_valid(load_tokens(file), now)

ExchangeRequests(reqs) == SelectSeq(reqs, LAMBDA q : q.grant = "authorization_code")

ExchangeFailed ==
    Len(ExchangeRequests(auth.out.reqs)) >= 1 /\ auth.out.inputs.ex.outcome # "ok"

RefreshFailed ==
    Len(RefreshRequests(auth.out.reqs)) >= 1 /\ auth.out.inputs.rf.outcome # "ok"

\* C21: one get_valid_access_token call sends at most one authorization
\* code exchange and at most one refresh request; a failed exchange or
\* refresh is the last request of the call and the call returns no token.
C21_AtMostOneExchangeAndRefresh ==
    IsTokenCall =>
        /\ Len(ExchangeRequests(auth.out.reqs)) <= 1
        /\ Len(RefreshRequests(auth.out.reqs)) <= 1
        /\ Len(auth.out.reqs) <= 2
        /\ ExchangeFailed => auth.out.result = 0 /\ Len(auth.out.reqs) = 1
        /\ RefreshFailed =>
              /\ auth.out.result = 0
              /\ auth.out.reqs[Len(auth.out.reqs)].grant = "refresh_token"

\* an exchange that succeeded, followed in the same call by a refresh
\* that failed
C21_Witness ==
    /\ IsTokenCall
    /\ Len(auth.out.reqs) = 2
    /\ RefreshFailed /\ ~ExchangeFailed
    /\ auth.out.result = 0

WritesWentThrough == \A i \in 1..3 : auth.out.inputs.saves[i] = "ok"

Refreshed == IsTokenCall /\ auth.out.path = "refreshed" /\ auth.out.result # 0

\* what a second call made at the same time would do, whatever the
\* outside world answers it
SecondCalls == TokenCallOutcomes(file, now, issued)

\* the clock has not moved since the call returned
JustReturned == now = auth.out.t

\* C22: after get_valid_access_token returned a refreshed token (its
\* writes to the file having gone through), the record on file satisfies
\* the validity predicate: a second call made at the same time returns
\* the same token and sends nothing to the token endpoint.
C22_RefreshReentersValid ==
    (Refreshed /\ WritesWentThrough /\ JustReturned) =>
        /\ is_token_valid(load_tokens(file), now)
        /\ \A second \in SecondCalls :
              second.result = auth.out.result /\ second.reqs = <<>>

\* C23: when the refresh response carries a new refresh token, the record
\* on file after the call (its writes having gone through) holds that
\* refresh token, not the one the refresh was made with.
C23_RotatedRefreshTokenSaved ==
    (Refreshed /\ WritesWentThrough /\ auth.out.inputs.rf.refresh_token # 0) =>
        load_tokens(file).refresh_token = auth.out.inputs.rf.refresh_token

\* the result of the offer step of the run: create_offer applied to the
\* answer the offer request got
OfferStep ==
    create_offer(RequestSku(res.input), res.input["offer"], ClientToken, http[2].answer).result

OfferWithoutId ==
    /\ IsSaga /\ Len(http) >= 2
    /\ ~OfferStep.raised /\ OfferStep.success
    /\ ~Truthy(OfferStep.payload, "offerId")

\* C24: when create_offer returns success with a payload that has no
\* offerId (the success body was empty, was not JSON, or was an object
\* without a usable offerId), create_scheduled_listing returns the failure
\* "Offer created but offerId missing in response" with an empty payload
\* and sends no publish request.
C24_MissingOfferIdStopsBeforePublish ==
    OfferWithoutId =>
        /\ res.result = Result(FALSE, EmptyDict,
                               <<"Offer created but offerId missing in response">>)
        /\ PublishCalls = <<>>
        /\ Len(http) = 2

C24_Witness ==
    /\ OfferWithoutId
    /\ http[2].answer.body.kind = "text"
    /\ PublishCalls = <<>>
    /\ ~res.result.success

\* the scheduled start of the listing request: offer.listingStartDate, or
\* else publishStartDate, 0 when the request has neither
RequestedStart(listing_data) ==
    IF Has(listing_data["offer"], "listingStartDate")
          /\ listing_data["offer"]["listingStartDate"] # 0
    THEN listing_data["offer"]["listingStartDate"]
    ELSE IF Has(listing_data, "publishStartDate") THEN listing_data["publishStartDate"]
    ELSE 0

StartCarried(call) ==
    IF call.has_data /\ Has(call.data, "listingStartDate")
    THEN call.data["listingStartDate"] ELSE 0

\* C25: the publish request of a run carries the scheduled start of the
\* listing request when the request has one, and no start date when it
\* has none.
C25_PublishCarriesStart ==
    IsSaga =>
        \A i \in 1..Len(PublishCalls) :
            StartCarried(PublishCalls[i]) = RequestedStart(res.input)

NothingLoadable == IsTokenCall /\ load_tokens(auth.pre) = NoTokens

AcquisitionSucceeded ==
    NothingLoadable /\ auth.out.inputs.consent = "code" /\ auth.out.inputs.ex.outcome = "ok"

AcquisitionFailed == NothingLoadable /\ ~AcquisitionSucceeded

\* the record the exchange of the call produced, stamped when it was answered
AcquiredRecord == _exchange_code_for_tokens(auth.out.inputs.ex, auth.at)

\* C26: a call that finds no loadable record prompts the user.  When the
\* acquisition succeeds (and the writes go through) the record on file at
\* return has an obtained_at stamp, and is the acquired record itself
\* unless the call went on to refresh it.  When the acquisition fails (no
\* code, or the exchange failed) the call returns no token, sends no
\* refresh request and leaves the file as it was.
C26_NoRecordMeansInteractive ==
    /\ IsTokenCall => (auth.out.prompted <=> NothingLoadable)
    /\ (AcquisitionSucceeded /\ WritesWentThrough) =>
            /\ load_tokens(file).obtained_at # 0
            /\ auth.out.path # "refreshed" => load_tokens(file) = AcquiredRecord
    /\ AcquisitionFailed =>
            /\ auth.out.result = 0
            /\ RefreshRequests(auth.out.reqs) = <<>>
            /\ file = auth.pre

C26_Witness ==
    /\ AcquisitionSucceeded /\ WritesWentThrough
    /\ auth.pre = NoFile
    /\ auth.out.path = "cached"
    /\ load_tokens(file) = AcquiredRecord
    /\ load_tokens(file).obtained_at = auth.out.t

\* a call whose acquisition failed
C26_WitnessFailure ==
    /\ AcquisitionFailed
    /\ auth.out.inputs.consent = "code"
    /\ auth.out.inputs.ex.outcome = "rejected"
    /\ file = auth.pre

\* a policy identifier or the location key still holds its sentinel
HasPlaceholder(cfg) ==
    \E i \in 1..Len(PolicyFields) : cfg[PolicyFields[i]] = PLACEHOLDERS[PolicyFields[i]]

IsLocationCall(call) == call.method = "POST" /\ Endpoint(call) = "location"

IsSagaCall(call) == IsUpsert(call) \/ IsOfferCall(call) \/ IsPublish(call)

\* C27: a run of create_sample_laptop_listing whose configuration holds a
\* placeholder in a policy identifier or in the merchant location key
\* fails and sends no request at all (no location, inventory, offer or
\* publish call); and in every run a saga request is sent only after the
\* location request, whose result was success or "already exists".
C27_PlaceholdersStopBeforeAnyCall ==
    IsSampleListing =>
        /\ HasPlaceholder(res.input.config) => (~res.result.ok /\ http = <<>>)
        /\ \A i \in 1..Len(http) :
              IsSagaCall(http[i]) =>
                  /\ i > 1
                  /\ IsLocationCall(http[1])
                  /\ LocationReady(http[1].result)
                  /\ ~HasPlaceholder(res.input.config)

C27_Witness ==
    /\ IsSampleListing
    /\ api_client # 0
    /\ res.input.config.MERCHANT_LOCATION_KEY = PLACEHOLDERS.MERCHANT_LOCATION_KEY
    /\ res.result.stage = "policies"
    /\ ~res.result.ok
    /\ http = <<>>

\* a run whose location already existed and whose saga went on
C27_WitnessAlreadyExists ==
    /\ IsSampleListing
    /\ Len(http) = 4
    /\ ~http[1].result.success
    /\ IsPublish(http[4])

RecordBefore == IsTokenCall /\ load_tokens(auth.pre) # NoTokens

RefreshRefused ==
    /\ RecordBefore
    /\ RefreshRequests(auth.out.reqs) # <<>>
    /\ auth.out.inputs.rf.outcome \in {"rejected", "transport"}

\* C28: a get_valid_access_token call that starts with a record on file
\* never leaves the file absent, and (its writes going through) leaves a
\* loadable record, so that no sequence of calls removes the record; a
\* call whose refresh request is rejected or fails in transport leaves the
\* file exactly as it was before the call.
C28_RecordSurvivesCalls ==
    /\ RecordBefore =>
          /\ file.kind # "absent"
          /\ WritesWentThrough => load_tokens(file) # NoTokens
    /\ RefreshRefused => (file = auth.pre /\ auth.out.result = 0)

C28_Witness ==
    /\ RefreshRefused
    /\ auth.out.inputs.rf.outcome = "rejected"
    /\ auth.out.path = "refresh_failed"
    /\ file = auth.pre
    /\ load_tokens(file).refresh_token # 0

ReturnsTriple == res.op \in {"_make_api_call", "create_offer", "create_scheduled_listing"}

WellFormed(result) ==
    /\ result.success <=> result.message = <<>>
    /\ ~result.success => result.payload = EmptyDict

\* C29: every result _make_api_call, create_offer and
\* create_scheduled_listing return is a (success, payload, message) triple
\* whose success flag is true exactly when the message is empty and whose
\* payload is empty on failure; create_scheduled_listing returns such a
\* triple whatever its three steps do, an exception raised inside a step
\* included.
C29_ResultsWellFormed ==
    ReturnsTriple =>
        /\ ~res.result.raised => WellFormed(res.result)
        /\ IsSaga => ~res.result.raised

\* a run whose offer step raised inside create_scheduled_listing
C29_Witness ==
    /\ IsSaga
    /\ Len(http) = 2
    /\ OfferStep.raised
    /\ ~res.result.raised
    /\ ~res.result.success
    /\ res.result.payload = EmptyDict
    /\ res.result.message # <<>>

UnparsableBefore == IsTokenCall /\ auth.pre.kind = "corrupt"

\* C30: a token file that is there but cannot be read or parsed counts as
\* no record: load_tokens returns None for it, the call prompts the user,
\* and a successful acquisition (its writes going through) replaces the
\* file with a parsable record, the acquired one unless the call went on
\* to refresh it.
C30_UnparsableFileIsAbsent ==
    UnparsableBefore =>
        /\ load_tokens(auth.pre) = NoTokens
        /\ auth.out.prompted
        /\ (AcquisitionSucceeded /\ WritesWentThrough) =>
              /\ file.kind = "record"
              /\ load_tokens(file) # NoTokens
              /\ auth.out.path # "refreshed" => load_tokens(file) = AcquiredRecord
        /\ AcquisitionFailed => file = auth.pre

C30_Witness ==
    /\ UnparsableBefore
    /\ auth.out.prompted
    /\ AcquisitionSucceeded /\ WritesWentThrough
    /\ file.kind = "record"
    /\ auth.out.result # 0
    /\ load_tokens(file).access_token = auth.out.result
====
